---- MODULE Spec2Model ----
(***************************************************************************)
(* ds5_thermal_monitor (src/ds5/ds5-thermal-monitor.cpp): a background     *)
(* loop that samples the temperature option every poll interval, notifies  *)
(* the subscribers when the reading drifts from the remembered baseline by *)
(* at least the threshold, and is started/stopped by a controlling thread. *)
(*                                                                         *)
(* Temperatures are whole degrees.  Values of the toggle option are in     *)
(* units of 2^-24, so that numeric_limits<float>::epsilon() = 2^-23 is 2   *)
(* and 1.0 is 16777216.                                                    *)
(***************************************************************************)
EXTENDS Integers, Sequences, FiniteSets, TLC

\* ------------------------------------------------------------------ bounds
\* number of registered subscribers (_thermal_changes_callbacks)
NSubs == 2
\* width of the band of "warm" readings 40 .. 40 + TempSpan
TempSpan == 3

\* ------------------------------------------------------- program constants
\* _thermal_threshold_deg(2.f)
thermal_threshold_deg == 2
\* std::numeric_limits<float>::epsilon(), in units of 2^-24
FltEpsilon == 2
\* notify(0): the value sent when compensation is switched off
DisabledValue == 0
\* _temp_base(0.f) and "_temp_base = 0.f" in stop()
BaseReset == 0

\* ------------------------------------------------------------ value domains
Ctl == {"c1", "c2"}
Subs == 1 .. NSubs
Temps == {-2, 0} \cup (40 .. 40 + TempSpan)
ToggleVals == {-1, 0, 2, 16777216}
\* a local that holds no value yet / a lock() that gave nothing
None == << >>
Some(x) == << x >>

Abs(x) == IF x < 0 THEN -x ELSE x

VARIABLES
    lpc,          \* position of the loop thread inside polling()
    cancel,       \* cancellation requested of the periodic task
    temp_base,    \* _temp_base
    cur_temp,     \* polling(): cur_temp of the running iteration, or None
    lidx,         \* polling() -> notify(): index of the next callback
    sensor_alive, \* _dpt_sensor.lock() would succeed
    opened,       \* snr->is_opened()
    temp_alive,   \* _temperature_sensor.lock() would succeed
    tl_alive,     \* _tl_activation.lock() would succeed
    tl_value,     \* what tl_active->query() returns at present
    cpc,          \* position of each controlling thread
    op,           \* the public call each controlling thread is in / made last
    cidx,         \* update() -> notify(0): index of the next callback
    clog,         \* callbacks invoked by the thread's current call
    llog,         \* callbacks invoked by the loop's current iteration
    base0,        \* _temp_base when the current iteration woke up
    tl_seen,      \* what the iteration's toggle query returned
    outcome,      \* how the last iteration ended
    prev_failed,  \* the iteration before it ended in a caught exception
    tl_skipped,   \* the iteration found no toggle option and skipped the gate
    prev_raised,  \* the reading of the iteration before, if a subscriber raised
    fresh,        \* no iteration before this one read a temperature since start
    pre_active,   \* is_active() when the thread's call was made
    res,          \* whether the call resolved _dpt_sensor
    open_seen,    \* what is_opened() returned to the call
    stop_ret,     \* a stop() has returned and no start happened since
    zero_calls,   \* notify(0) calls since the loop was last started
    cancel_at,    \* where the loop was when cancellation was last signalled
    stop_base     \* _temp_base as the last stop() found it before resetting it

vars == << lpc, cancel, temp_base, cur_temp, lidx, sensor_alive, opened,
           temp_alive, tl_alive, tl_value, cpc, op, cidx, clog, llog, base0,
           tl_seen, outcome, prev_failed, tl_skipped, prev_raised, fresh,
           pre_active, res, open_seen, stop_ret, zero_calls, cancel_at,
           stop_base >>

loop_vars == << lpc, cur_temp, lidx, llog, base0, tl_seen, outcome, prev_failed,
               tl_skipped, prev_raised, fresh >>
env_vars  == << sensor_alive, opened, temp_alive, tl_alive, tl_value >>
ctl_vars  == << cpc, op, cidx, clog, pre_active, res, open_seen >>

\* ------------------------------------------------------------ active_object
\* _monitor.is_active(): whether the periodic task is running
is_active == lpc # "idle"

\* ---------------------------------------------------------------- helpers
\* line 77: std::fabs(tl_active->query()) < epsilon
TlDisabledExact(q) == q = 0
TlDisabled(q) == Abs(q) < FltEpsilon

\* line 87: fabs(_temp_base - cur_temp) >= _thermal_threshold_deg
SignificantStrict(base, cur) == Abs(base - cur) > thermal_threshold_deg
SignificantAny(base, cur) == base # cur
SignificantNoFabs(base, cur) == base - cur >= thermal_threshold_deg
Significant(base, cur) == Abs(base - cur) >= thermal_threshold_deg

\* lines 101-108: catch (const std::exception&) / catch (...): the iteration
\* ends and the loop goes on; "terminated" is the loop killed by an escaped
\* exception
Uncaught == "terminated"
Caught == "sleep"

\* cancellable_timer.try_sleep(_poll_intervals_ms): true if the interval
\* elapsed, false if cancellation was requested
try_sleep == ~cancel

\* line 70: if (cancellable_timer.try_sleep(...)) the step samples
ShouldSampleAlways(slept) == TRUE
ShouldSample(slept) == slept

\* lines 75-79: with no toggle option to ask, the step goes on to line 81
GateWithoutToggleReturns == "sleep"
GateWithoutToggle == "temp"

\* lines 83, 96-99: with no temperature option the step only logs, and the
\* iteration ends; "terminated" is the loop killed by using the empty pointer
MissingTempDereferenced == "terminated"
AfterMissingTemp == "sleep"

\* lines 92-93: _temp_base is not written before notify(cur_temp) has returned
BaseSetFirst(q) == q
BaseBeforeNotify(q) == temp_base

\* lines 118-119: the range-for visits the callbacks in the order of the list
CallbackReversed(i) == NSubs + 1 - i
Callback(i) == i

Init ==
    /\ lpc = "idle"
    /\ cancel = FALSE
    /\ temp_base = BaseReset
    /\ cur_temp = None
    /\ lidx = 1
    /\ sensor_alive = TRUE
    /\ opened \in BOOLEAN
    /\ temp_alive = TRUE
    /\ tl_alive = TRUE
    /\ tl_value \in ToggleVals
    /\ cpc = [t \in Ctl |-> "idle"]
    /\ op = [t \in Ctl |-> "none"]
    /\ cidx = [t \in Ctl |-> 1]
    /\ clog = [t \in Ctl |-> << >>]
    /\ llog = << >>
    /\ base0 = BaseReset
    /\ tl_seen = None
    /\ outcome = "none"
    /\ prev_failed = FALSE
    /\ tl_skipped = FALSE
    /\ prev_raised = None
    /\ fresh = FALSE
    /\ pre_active = [t \in Ctl |-> FALSE]
    /\ res = [t \in Ctl |-> "na"]
    /\ open_seen = [t \in Ctl |-> "na"]
    /\ stop_ret = FALSE
    /\ zero_calls = 0
    /\ cancel_at = "none"
    /\ stop_base = BaseReset

\* ------------------------------------------------------------ loop thread
\* the iteration is over: back to the interruptible sleep
EndIteration(how) ==
    /\ lpc' = "sleep"
    /\ outcome' = how

\* line 70, try_sleep returned true: the interval elapsed without cancellation
polling_wake ==
    /\ lpc = "sleep"
    /\ ShouldSample(try_sleep)
    /\ lpc' = "toggle"
    /\ cur_temp' = None
    /\ lidx' = 1
    /\ llog' = << >>
    /\ base0' = temp_base
    /\ tl_seen' = None
    /\ outcome' = "running"
    /\ prev_failed' = (outcome = "failed")
    /\ tl_skipped' = FALSE
    /\ prev_raised' = IF outcome = "cb_failed" THEN cur_temp ELSE None
    /\ fresh' = (fresh /\ cur_temp = None)
    /\ UNCHANGED << cancel, temp_base, env_vars, ctl_vars, stop_ret, zero_calls,
                    cancel_at, stop_base >>

\* lines 70, 110-113, try_sleep returned false: no sampling, and the periodic
\* task leaves its loop
polling_cancelled ==
    /\ lpc = "sleep"
    /\ ~ShouldSample(try_sleep)
    /\ lpc' = "idle"
    /\ cur_temp' = None
    /\ lidx' = 1
    /\ llog' = << >>
    /\ base0' = BaseReset
    /\ tl_seen' = None
    /\ outcome' = "none"
    /\ prev_failed' = FALSE
    /\ tl_skipped' = FALSE
    /\ prev_raised' = None
    /\ fresh' = FALSE
    /\ UNCHANGED << cancel, temp_base, env_vars, ctl_vars, stop_ret, zero_calls,
                    cancel_at, stop_base >>

\* lines 75-79: the firmware gate
polling_toggle ==
    /\ lpc = "toggle"
    /\ \/ /\ ~tl_alive
          /\ tl_seen' = None
          /\ tl_skipped' = TRUE
          /\ lpc' = GateWithoutToggle
          /\ UNCHANGED outcome
       \/ /\ tl_alive
          /\ tl_seen' = Some(tl_value)
          /\ IF TlDisabled(tl_value)
               THEN EndIteration("gated")
               ELSE lpc' = "temp" /\ UNCHANGED outcome
          /\ UNCHANGED tl_skipped
       \/ /\ tl_alive
          /\ tl_seen' = None
          /\ lpc' = Caught
          /\ outcome' = "failed"
          /\ UNCHANGED tl_skipped
    /\ UNCHANGED << cancel, temp_base, cur_temp, lidx, llog, base0,
                    prev_failed, prev_raised, fresh, env_vars, ctl_vars, stop_ret, zero_calls,
                    cancel_at, stop_base >>

\* lines 83-87, 96-99: resolve and query the temperature, compare
polling_temp ==
    /\ lpc = "temp"
    /\ \/ /\ ~temp_alive
          /\ lpc' = AfterMissingTemp
          /\ outcome' = "no_temp"
          /\ UNCHANGED << cur_temp, temp_base >>
       \/ /\ temp_alive
          /\ \E q \in Temps :
               /\ cur_temp' = Some(q)
               /\ IF Significant(temp_base, q)
                    THEN /\ lpc' = "notify"
                         /\ temp_base' = BaseBeforeNotify(q)
                         /\ UNCHANGED outcome
                    ELSE /\ EndIteration("below")
                         /\ UNCHANGED temp_base
       \/ /\ temp_alive
          /\ lpc' = Caught
          /\ outcome' = "failed"
          /\ UNCHANGED << cur_temp, temp_base >>
    /\ UNCHANGED << cancel, lidx, llog, base0, tl_seen,
                    prev_failed, tl_skipped, prev_raised, fresh, env_vars, ctl_vars, stop_ret, zero_calls,
                    cancel_at, stop_base >>

\* lines 92, 118-119: notify(cur_temp) calls the next subscriber
polling_notify ==
    /\ lpc = "notify"
    /\ llog' = Append(llog, [sub |-> Callback(lidx), val |-> cur_temp[1]])
    /\ lidx' = lidx + 1
    /\ lpc' = IF lidx = NSubs THEN "set_base" ELSE "notify"
    /\ UNCHANGED << cancel, temp_base, cur_temp, base0, tl_seen, outcome,
                    prev_failed, tl_skipped, prev_raised, fresh, env_vars, ctl_vars, stop_ret, zero_calls,
                    cancel_at, stop_base >>

\* lines 92, 118-119, 101-108: the subscriber called by notify(cur_temp)
\* raises; the exception leaves notify() and the try block
polling_notify_raises ==
    /\ lpc = "notify"
    /\ llog' = Append(llog, [sub |-> Callback(lidx), val |-> cur_temp[1]])
    /\ lpc' = Caught
    /\ outcome' = "cb_failed"
    /\ UNCHANGED << cancel, temp_base, cur_temp, lidx, base0, tl_seen,
                    prev_failed, tl_skipped, prev_raised, fresh, env_vars,
                    ctl_vars, stop_ret, zero_calls, cancel_at, stop_base >>

\* line 93: _temp_base = cur_temp
polling_set_base ==
    /\ lpc = "set_base"
    /\ temp_base' = cur_temp[1]
    /\ EndIteration("notified")
    /\ UNCHANGED << cancel, cur_temp, lidx, llog, base0, tl_seen,
                    prev_failed, tl_skipped, prev_raised, fresh, env_vars, ctl_vars, stop_ret, zero_calls,
                    cancel_at, stop_base >>

\* ----------------------------------------------------- controlling threads
\* line 35: if (!_monitor.is_active())
StartNeededInverted == is_active
StartNeeded == ~is_active

\* line 41: if (_monitor.is_active())
StopNeededInverted == ~is_active
StopNeeded == is_active

\* line 50: if (on != _monitor.is_active())
UpdateNeededInverted(on) == on = is_active
UpdateNeeded(on) == on # is_active

\* line 60: if (snr->is_opened())
OpenGateAlways(o) == TRUE
OpenGate(o) == o

\* line 52: if (auto snr = _dpt_sensor.lock())
SensorAssumed == TRUE
SensorResolves == sensor_alive

\* lines 54-58: update(false) calls stop() first and notify(0) after it
OffFirstNotify == "notify"
OffFirst == "stop"

\* where stop() returns to: update(false) goes on to notify(0) (line 57), the
\* destructor (lines 28-31) ends the object, start()'s and stop()'s callers
\* go on; stop() itself (lines 39-46) calls no subscriber
AfterStopNotifies(o) == "notify"
AfterStop(o) ==
    CASE o = "update_off" -> "notify"
      [] o = "destroy" -> "dead"
      [] OTHER -> "idle"

\* the thread is back in its caller
Return(t) == cpc' = [cpc EXCEPT ![t] = "idle"]

\* stop() returns
StopReturns(t) ==
    /\ cpc' = [cpc EXCEPT ![t] = AfterStop(op[t])]
    /\ stop_ret' = TRUE

\* the controlling thread calls start(), stop(), update(true) or
\* update(false), or destroys the monitor
Call(t, o) ==
    /\ cpc[t] = "idle"
    /\ op' = [op EXCEPT ![t] = o]
    /\ cpc' = [cpc EXCEPT ![t] =
                 CASE o = "start" -> "start"
                   [] o \in {"stop", "destroy"} -> "stop"
                   [] OTHER -> "update"]
    /\ cidx' = [cidx EXCEPT ![t] = 1]
    /\ clog' = [clog EXCEPT ![t] = << >>]
    /\ pre_active' = [pre_active EXCEPT ![t] = is_active]
    /\ res' = [res EXCEPT ![t] = "na"]
    /\ open_seen' = [open_seen EXCEPT ![t] = "na"]
    /\ UNCHANGED << cancel, temp_base, loop_vars, env_vars, stop_ret, zero_calls,
                    cancel_at, stop_base >>

\* line 50
update_check(t) ==
    /\ cpc[t] = "update"
    /\ IF UpdateNeeded(op[t] = "update_on")
         THEN cpc' = [cpc EXCEPT ![t] = "update_lock"]
         ELSE Return(t)
    /\ UNCHANGED << cancel, temp_base, loop_vars, env_vars, op, cidx, clog,
                    pre_active, res, open_seen, stop_ret, zero_calls,
                    cancel_at, stop_base >>

\* lines 52-59: auto snr = _dpt_sensor.lock(), then the branch on "on"
update_lock(t) ==
    /\ cpc[t] = "update_lock"
    /\ res' = [res EXCEPT ![t] = IF sensor_alive THEN "yes" ELSE "no"]
    /\ IF SensorResolves
         THEN cpc' = [cpc EXCEPT ![t] =
                        IF op[t] = "update_off" THEN OffFirst ELSE "update_open"]
         ELSE Return(t)
    /\ UNCHANGED << cancel, temp_base, loop_vars, env_vars, op, cidx, clog,
                    pre_active, open_seen, stop_ret, zero_calls,
                    cancel_at, stop_base >>

\* lines 60-63: snr keeps the sensor alive, so is_opened() is answered
update_open(t) ==
    /\ cpc[t] = "update_open"
    /\ open_seen' = [open_seen EXCEPT ![t] = IF opened THEN "yes" ELSE "no"]
    /\ IF OpenGate(opened)
         THEN cpc' = [cpc EXCEPT ![t] = "start"]
         ELSE Return(t)
    /\ UNCHANGED << cancel, temp_base, loop_vars, env_vars, op, cidx, clog,
                    pre_active, res, stop_ret, zero_calls,
                    cancel_at, stop_base >>

\* line 35
start_check(t) ==
    /\ cpc[t] = "start"
    /\ IF StartNeeded
         THEN cpc' = [cpc EXCEPT ![t] = "monitor_start"]
         ELSE Return(t)
    /\ UNCHANGED << cancel, temp_base, loop_vars, env_vars, op, cidx, clog,
                    pre_active, res, open_seen, stop_ret, zero_calls,
                    cancel_at, stop_base >>

\* line 36, _monitor.start(): if not already running, the loop begins with
\* its first interruptible sleep
monitor_start(t) ==
    /\ cpc[t] = "monitor_start"
    /\ Return(t)
    /\ IF ~is_active
         THEN /\ lpc' = "sleep"
              /\ cancel' = FALSE
              /\ cur_temp' = None
              /\ lidx' = 1
              /\ llog' = << >>
              /\ base0' = BaseReset
              /\ tl_seen' = None
              /\ outcome' = "none"
              /\ prev_failed' = FALSE
              /\ tl_skipped' = FALSE
              /\ prev_raised' = None
              /\ fresh' = TRUE
              /\ stop_ret' = FALSE
              /\ zero_calls' = 0
              /\ cancel_at' = "none"
              /\ stop_base' = BaseReset
         ELSE UNCHANGED << cancel, loop_vars, stop_ret, zero_calls,
                           cancel_at, stop_base >>
    /\ UNCHANGED << temp_base, env_vars, op, cidx, clog, pre_active, res,
                    open_seen >>

\* line 41
stop_check(t) ==
    /\ cpc[t] = "stop"
    /\ IF StopNeeded
         THEN cpc' = [cpc EXCEPT ![t] = "monitor_stop"] /\ UNCHANGED stop_ret
         ELSE StopReturns(t)
    /\ UNCHANGED << cancel, temp_base, loop_vars, env_vars, op, cidx, clog,
                    pre_active, res, open_seen, zero_calls,
                    cancel_at, stop_base >>

\* line 43, _monitor.stop(), first half: if running, signal cancellation
monitor_stop(t) ==
    /\ cpc[t] = "monitor_stop"
    /\ cancel' = (is_active \/ cancel)
    /\ cancel_at' = IF is_active THEN lpc ELSE cancel_at
    /\ cpc' = [cpc EXCEPT ![t] = "monitor_join"]
    /\ UNCHANGED << temp_base, loop_vars, env_vars, op, cidx, clog,
                    pre_active, res, open_seen, stop_ret, zero_calls,
                    stop_base >>

\* line 43, _monitor.stop(), second half: block until the loop has exited
JoinDone == lpc = "idle"

monitor_join(t) ==
    /\ cpc[t] = "monitor_join"
    /\ JoinDone
    /\ cancel' = FALSE
    /\ cpc' = [cpc EXCEPT ![t] = "stop_reset"]
    /\ UNCHANGED << temp_base, loop_vars, env_vars, op, cidx, clog,
                    pre_active, res, open_seen, stop_ret, zero_calls,
                    cancel_at, stop_base >>

\* line 44: _temp_base = 0.f, and stop() returns
BaseKept == temp_base
BaseAfterStop == BaseReset

stop_reset(t) ==
    /\ cpc[t] = "stop_reset"
    /\ temp_base' = BaseAfterStop
    /\ stop_base' = temp_base
    /\ StopReturns(t)
    /\ UNCHANGED << cancel, loop_vars, env_vars, op, cidx, clog,
                    pre_active, res, open_seen, zero_calls, cancel_at >>

\* lines 57, 118-119: notify(0) calls the next subscriber
update_notify(t) ==
    /\ cpc[t] = "notify"
    /\ clog' = [clog EXCEPT ![t] = Append(@, [sub |-> Callback(cidx[t]), val |-> DisabledValue])]
    /\ cidx' = [cidx EXCEPT ![t] = @ + 1]
    /\ zero_calls' = IF cidx[t] = 1 THEN zero_calls + 1 ELSE zero_calls
    /\ IF cidx[t] = NSubs
         THEN Return(t)
         ELSE UNCHANGED cpc
    /\ UNCHANGED << cancel, temp_base, loop_vars, env_vars, op,
                    pre_active, res, open_seen, stop_ret, cancel_at,
                    stop_base >>

\* ------------------------------------------------------------- environment
\* the owner of the activation sensor destroys it: _dpt_sensor expires
sensor_gone ==
    /\ sensor_alive
    /\ sensor_alive' = FALSE
    /\ opened' = FALSE
    /\ UNCHANGED << cancel, temp_base, loop_vars, ctl_vars, temp_alive,
                    tl_alive, tl_value, stop_ret, zero_calls,
                    cancel_at, stop_base >>

\* the stream of the activation sensor is opened or closed
sensor_open_close ==
    /\ sensor_alive
    /\ opened' = ~opened
    /\ UNCHANGED << cancel, temp_base, loop_vars, ctl_vars, sensor_alive,
                    temp_alive, tl_alive, tl_value, stop_ret, zero_calls,
                    cancel_at, stop_base >>

\* the temperature option is destroyed: _temperature_sensor expires
temp_gone ==
    /\ temp_alive
    /\ temp_alive' = FALSE
    /\ UNCHANGED << cancel, temp_base, loop_vars, ctl_vars, sensor_alive,
                    opened, tl_alive, tl_value, stop_ret, zero_calls,
                    cancel_at, stop_base >>

\* the toggle option is destroyed: _tl_activation expires
tl_gone ==
    /\ tl_alive
    /\ tl_alive' = FALSE
    /\ tl_value' = 0
    /\ UNCHANGED << cancel, temp_base, loop_vars, ctl_vars, sensor_alive,
                    opened, temp_alive, stop_ret, zero_calls,
                    cancel_at, stop_base >>

\* the firmware switches the thermal loop: the toggle option reads differently
tl_change ==
    /\ tl_alive
    /\ \E v \in ToggleVals \ {tl_value} : tl_value' = v
    /\ UNCHANGED << cancel, temp_base, loop_vars, ctl_vars, sensor_alive,
                    opened, temp_alive, tl_alive, stop_ret, zero_calls,
                    cancel_at, stop_base >>

\* ---------------------------------------------------------- specifications
Ops == {"start", "stop", "update_on", "update_off", "destroy"}

Loop ==
    \/ polling_wake
    \/ polling_cancelled
    \/ polling_toggle
    \/ polling_temp
    \/ polling_notify
    \/ polling_set_base

Env ==
    \/ sensor_gone
    \/ sensor_open_close
    \/ temp_gone
    \/ tl_gone
    \/ tl_change

Steps(t) ==
    \/ update_check(t)
    \/ update_lock(t)
    \/ update_open(t)
    \/ start_check(t)
    \/ monitor_start(t)
    \/ stop_check(t)
    \/ monitor_stop(t)
    \/ monitor_join(t)
    \/ stop_reset(t)
    \/ update_notify(t)

\* one controlling thread and the loop thread, the options and the sensor
\* changing under them
Next ==
    \/ Loop
    \/ Env
    \/ \E o \in Ops : Call("c1", o)
    \/ Steps("c1")

Spec == Init /\ [][Next]_vars

\* the same, the loop thread being scheduled and its sleep interval elapsing
SpecLive == Spec /\ WF_vars(Loop)

\* one controlling thread and the loop thread, with subscribers that may
\* raise when the loop calls them; the sensor and the options stay as found
NextRaise ==
    \/ Loop
    \/ polling_notify_raises
    \/ \E o \in Ops : Call("c1", o)
    \/ Steps("c1")

SpecRaise == Init /\ [][NextRaise]_vars

\* update() called from several threads at once
NextMT ==
    \/ Loop
    \/ \E t \in Ctl : \E o \in {"update_on", "update_off"} : Call(t, o)
    \/ \E t \in Ctl : Steps(t)

SpecMT == Init /\ [][NextMT]_vars

\* -------------------------------------------------------------- properties
\* one call of notify(v): every subscriber once, in order, with v
Round(v) == [i \in 1 .. NSubs |-> [sub |-> i, val |-> v]]

\* thread t has returned from a call of o
Returned(t, o) == cpc[t] = "idle" /\ op[t] = o

\* C1 as stated: update(false) called while the monitor is active invokes every
\* subscriber once with 0 and leaves the monitor inactive when it returns.
C1_UpdateOffNotifiesZero ==
    \A t \in Ctl :
        (Returned(t, "update_off") /\ pre_active[t])
            => (clog[t] = Round(0) /\ ~is_active)

\* C1 amended: update(false) called while the monitor is active and the
\* activation sensor still resolves invokes every subscriber once with 0 and
\* leaves the monitor inactive; if the sensor is gone it notifies nobody and
\* the monitor stays active.
C1_UpdateOffResolved ==
    \A t \in Ctl :
        (Returned(t, "update_off") /\ pre_active[t])
            => /\ res[t] \in {"yes", "no"}
               /\ res[t] = "yes" => (clog[t] = Round(0) /\ ~is_active)
               /\ res[t] = "no" => (clog[t] = << >> /\ is_active)

C1_Witness ==
    /\ Returned("c1", "update_off")
    /\ pre_active["c1"]
    /\ res["c1"] = "yes"
    /\ clog["c1"] = Round(0)
    /\ lpc = "idle"

\* C2: when a stop() call has returned and no start() followed it, the loop
\* thread has exited: it is in no sleep and in no sampling step.
C2_StopJoinsLoop == stop_ret => lpc = "idle"

\* a stop() whose cancellation arrived in the middle of a notification round
C2_Witness ==
    /\ Returned("c1", "stop")
    /\ pre_active["c1"]
    /\ stop_ret
    /\ cancel_at = "notify"
    /\ lpc = "idle"

\* C3: update()'s is_active() check and the stop that follows it are atomic
\* with respect to concurrent update() calls: whatever the interleaving, the
\* loop once started is stopped once, with one round of 0-notifications.
\* (That it is started once rests on _monitor.start() doing nothing on a
\* running task.)
C3_AtomicTransitions == zero_calls <= 1

\* C4: after start() the monitor is active and after stop() it is inactive,
\* and a start() on an active monitor or a stop() on an inactive one returns
\* at once having changed neither the active state, nor the baseline, nor
\* invoked a subscriber.
C4_NetEffect ==
    \A t \in Ctl :
        /\ Returned(t, "start") => is_active
        /\ Returned(t, "stop") => ~is_active

C4_RedundantStep(t) ==
    /\ cpc[t] \in {"start", "stop"}
    /\ \/ op[t] = "start" /\ is_active
       \/ op[t] = "stop" /\ ~is_active
    /\ cpc'[t] # cpc[t]

C4_StartStopIdempotent ==
    /\ []C4_NetEffect
    /\ [][\A t \in Ctl :
            C4_RedundantStep(t)
                => /\ cpc'[t] = "idle"
                   /\ lpc' = lpc
                   /\ temp_base' = temp_base
                   /\ clog'[t] = << >>
                   /\ llog' = llog]_vars

\* a start() on a monitor that was active, with a baseline other than 0
C4_Witness ==
    /\ Returned("c1", "start")
    /\ pre_active["c1"]
    /\ is_active
    /\ temp_base = 43

\* C5: after a stop() call has returned, _temp_base is 0.
C5_BaselineZeroAfterStop ==
    \A t \in Ctl : Returned(t, "stop") => temp_base = 0

\* a stop() that found a baseline written by a sampling step
C5_Witness ==
    /\ Returned("c1", "stop")
    /\ pre_active["c1"]
    /\ stop_base = 43
    /\ temp_base = 0

\* the last iteration queried the temperature, and the loop is asleep again
Sampled == lpc = "sleep" /\ cur_temp # None

\* C6: a sampling step whose reading T1 is at least the threshold away from
\* the baseline invokes every subscriber with T1 and makes T1 the baseline.
C6_SignificantChangeNotifies ==
    (Sampled /\ Abs(base0 - cur_temp[1]) >= thermal_threshold_deg)
        => (llog = Round(cur_temp[1]) /\ temp_base = cur_temp[1])

\* baseline 40, reading 43
C6_Witness ==
    /\ Sampled
    /\ base0 = 40
    /\ cur_temp = Some(43)
    /\ llog = Round(43)
    /\ temp_base = 43

\* C7: a sampling step whose reading is less than the threshold away from the
\* baseline invokes no subscriber and leaves the baseline as it was.
C7_SmallChangeIgnored ==
    (Sampled /\ Abs(base0 - cur_temp[1]) < thermal_threshold_deg)
        => (llog = << >> /\ temp_base = base0)

C7_Witness ==
    /\ Sampled
    /\ base0 = 40
    /\ cur_temp = Some(41)
    /\ temp_base = 40
    /\ outcome = "below"

\* the toggle option resolves and reads 0 within epsilon, and no iteration
\* that passed the gate earlier is still under way
ToggleOff ==
    /\ tl_alive
    /\ Abs(tl_value) < FltEpsilon
    /\ lpc \notin {"temp", "notify", "set_base"}

\* C8 as stated: while the toggle option resolves and reads 0 within epsilon,
\* no subscriber is invoked, by the loop or by update().
C8_NoNotificationWhileToggleOff ==
    [][ToggleOff
          => /\ Len(llog') <= Len(llog)
             /\ \A t \in Ctl : Len(clog'[t]) <= Len(clog[t])]_vars

\* C8 amended: a sampling step whose toggle query returns 0 within epsilon
\* ends there: it does not query the temperature, invokes no subscriber and
\* leaves the baseline unchanged.  (update(false) sends its 0 whatever the
\* toggle reads.)
C8_GatedStepIsSilent ==
    (tl_seen # None /\ Abs(tl_seen[1]) < FltEpsilon)
        => /\ outcome = "gated"
           /\ lpc = "sleep"
           /\ cur_temp = None
           /\ llog = << >>
           /\ temp_base = base0

\* gated by a reading that is not exactly 0, with a baseline that a reading
\* of 40 or more would have moved
C8_Witness ==
    /\ tl_seen = Some(-1)
    /\ outcome = "gated"
    /\ temp_base = 0
    /\ temp_alive

\* C9: update(true) on an inactive monitor whose sensor resolves: if the sensor
\* reports not opened, the monitor stays inactive and nobody is notified; if
\* it reports opened, the monitor is active when update returns.
C9_UpdateOnNeedsOpenSensor ==
    \A t \in Ctl :
        (Returned(t, "update_on") /\ ~pre_active[t] /\ res[t] = "yes")
            => /\ open_seen[t] = "no"
                    => (~is_active /\ clog[t] = << >> /\ llog = << >>)
               /\ open_seen[t] = "yes" => is_active

C9_Witness ==
    /\ Returned("c1", "update_on")
    /\ ~pre_active["c1"]
    /\ res["c1"] = "yes"
    /\ open_seen["c1"] = "no"
    /\ ~is_active

\* C10: a query that raises ends its iteration only: the loop is not killed
\* and goes back to sleep, and when the next iteration reads a temperature at
\* least the threshold away from the baseline, it notifies.
C10_QueryFailureContained ==
    /\ lpc # "terminated"
    /\ outcome = "failed" => lpc = "sleep"
    /\ (prev_failed /\ Sampled
          /\ Abs(base0 - cur_temp[1]) >= thermal_threshold_deg)
         => llog = Round(cur_temp[1])

C10_Witness ==
    /\ prev_failed
    /\ Sampled
    /\ outcome = "notified"
    /\ llog = Round(43)

\* C11: an iteration that cannot resolve the temperature option invokes no
\* subscriber and leaves the baseline as it was, the loop stays in its sleep,
\* and unless the monitor is stopped the next iteration begins.
C11_MissingTempSkipped ==
    outcome = "no_temp"
        => /\ lpc = "sleep"
           /\ cur_temp = None
           /\ llog = << >>
           /\ temp_base = base0

C11_MissingTempRecoverable ==
    /\ []C11_MissingTempSkipped
    /\ (outcome = "no_temp") ~> (outcome = "running" \/ lpc = "idle")

\* the option is gone, with a baseline that a sampling step had written
C11_Witness ==
    /\ outcome = "no_temp"
    /\ ~temp_alive
    /\ lpc = "sleep"
    /\ temp_base = 43

\* C12: notify(value) invokes every subscriber once, in the order of
\* subscription, each with the same value, from the loop and from update().
C12_InOrder(log, v) ==
    /\ Len(log) <= NSubs
    /\ \A i \in 1 .. Len(log) : log[i] = [sub |-> i, val |-> v]

C12_NotifyInOrder ==
    /\ llog # << >> => C12_InOrder(llog, cur_temp[1])
    /\ lpc = "set_base" => llog = Round(cur_temp[1])
    /\ \A t \in Ctl :
         /\ C12_InOrder(clog[t], 0)
         /\ (clog[t] # << >> /\ cpc[t] = "idle") => clog[t] = Round(0)

\* notify(43) has returned to the sampling step
C12_Witness ==
    /\ lpc = "set_base"
    /\ llog = Round(43)
    /\ Len(llog) = NSubs

\* C13: an update(true) or update(false) that cannot resolve the activation
\* sensor returns without a transition: the loop is where it was, the
\* baseline and the cancellation flag are untouched, and no subscriber has
\* been invoked when it returns.
C13_Unresolved(t) ==
    /\ cpc[t] = "update_lock"
    /\ ~sensor_alive
    /\ cpc'[t] # cpc[t]

C13_NoTransition ==
    \A t \in Ctl :
        (cpc[t] = "idle" /\ op[t] \in {"update_on", "update_off"}
           /\ res[t] = "no")
            => (is_active = pre_active[t] /\ clog[t] = << >>)

C13_UnresolvedSensorNoTransition ==
    /\ []C13_NoTransition
    /\ [][\A t \in Ctl :
            C13_Unresolved(t)
                => /\ cpc'[t] = "idle"
                   /\ lpc' = lpc
                   /\ cancel' = cancel
                   /\ temp_base' = temp_base
                   /\ llog' = llog
                   /\ clog'[t] = << >>]_vars

\* an update(false) on an active monitor that has a sampled baseline
C13_Witness ==
    /\ Returned("c1", "update_off")
    /\ res["c1"] = "no"
    /\ pre_active["c1"]
    /\ is_active
    /\ temp_base = 43

\* C14: update(false) has stopped the loop before it invokes the first
\* subscriber with 0, and from there until the next start the loop invokes
\* no subscriber.
C14_ZeroUnderWay ==
    \/ zero_calls > 0
    \/ \E t \in Ctl : cpc[t] = "notify"

C14_StoppedBeforeZero ==
    /\ [](C14_ZeroUnderWay => lpc = "idle")
    /\ [][C14_ZeroUnderWay => Len(llog') <= Len(llog)]_vars

\* the 0 follows a temperature notification that was cut short by the stop
C14_Witness ==
    /\ cpc["c1"] = "notify"
    /\ clog["c1"] = << [sub |-> 1, val |-> 0] >>
    /\ cancel_at = "notify"
    /\ lpc = "idle"

\* C15: a sleep that ends with cancellation requested is followed by no
\* sampling: the loop exits having queried neither option, invoked no
\* subscriber and left the baseline as it was.
C15_CancelledSleep ==
    /\ lpc = "sleep"
    /\ ~try_sleep
    /\ lpc' # lpc

C15_CancelledSleepDoesNotSample ==
    [][C15_CancelledSleep
         => /\ lpc' = "idle"
            /\ tl_seen' = None
            /\ cur_temp' = None
            /\ llog' = << >>
            /\ temp_base' = temp_base]_vars

\* the loop has left a sleep that was cancelled, the baseline still sampled
C15_Witness ==
    /\ lpc = "idle"
    /\ cpc["c1"] = "monitor_join"
    /\ cancel_at = "sleep"
    /\ temp_base = 43

\* C16: an iteration that could not resolve the toggle option goes on to the
\* temperature: it ends at the temperature option or its query, or it has a
\* reading, which it notifies and makes the baseline exactly when it is at
\* least the threshold away from the baseline.
C16_UnresolvedToggleSamples ==
    (lpc = "sleep" /\ tl_skipped)
        => /\ tl_seen = None
           /\ outcome \in {"no_temp", "failed", "below", "notified"}
           /\ outcome \in {"below", "notified"} <=> cur_temp # None
           /\ cur_temp # None
                => IF Abs(base0 - cur_temp[1]) >= thermal_threshold_deg
                     THEN /\ outcome = "notified"
                          /\ llog = Round(cur_temp[1])
                          /\ temp_base = cur_temp[1]
                     ELSE /\ outcome = "below"
                          /\ llog = << >>
                          /\ temp_base = base0

C16_Witness ==
    /\ lpc = "sleep"
    /\ tl_skipped
    /\ ~tl_alive
    /\ outcome = "notified"
    /\ base0 = 40
    /\ llog = Round(43)
    /\ temp_base = 43

\* C17: whenever the monitor is inactive and no thread is inside stop(),
\* update() or the destructor, _temp_base is 0; and _temp_base changes only
\* in a sampling step, to the reading every subscriber has just been invoked
\* with, or at the end of stop(), to 0.
C17_Quiescent ==
    /\ ~is_active
    /\ \A t \in Ctl : cpc[t] \in {"idle", "dead"} \/ op[t] = "start"

C17_BaselineWrite ==
    temp_base' # temp_base
        => \/ /\ lpc = "set_base"
              /\ llog = Round(cur_temp[1])
              /\ temp_base' = cur_temp[1]
           \/ /\ \E t \in Ctl : cpc[t] = "stop_reset"
              /\ temp_base' = 0

C17_BaselineZeroWhenInactive ==
    /\ [](C17_Quiescent => temp_base = 0)
    /\ [][C17_BaselineWrite]_vars

\* the monitor was destroyed while its baseline was a sampled reading
C17_Witness ==
    /\ C17_Quiescent
    /\ cpc["c1"] = "dead"
    /\ stop_base = 43
    /\ temp_base = 0

\* C18: a subscriber that raises in the sampling step's notify() ends the
\* iteration only: the loop goes back to sleep, the baseline is the one the
\* iteration began with, the subscribers after the raising one have not been
\* invoked, and the next iteration that reads the same temperature invokes
\* the first subscriber with it again.
C18_RaisedIteration ==
    (lpc = "sleep" /\ outcome = "cb_failed")
        => /\ temp_base = base0
           /\ Len(llog) \in 1 .. NSubs
           /\ Len(llog) = lidx
           /\ \A i \in 1 .. Len(llog) :
                llog[i] = [sub |-> i, val |-> cur_temp[1]]

C18_NotifiedAgain ==
    (prev_raised # None /\ cur_temp = prev_raised
       /\ lpc \in {"sleep", "set_base"})
        => (llog # << >> /\ llog[1] = [sub |-> 1, val |-> cur_temp[1]])

C18_RaisingSubscriberContained ==
    /\ lpc # "terminated"
    /\ C18_RaisedIteration
    /\ C18_NotifiedAgain

\* the first subscriber raised on 43, and the next iteration read 43 again
\* and invoked every subscriber
C18_Witness ==
    /\ prev_raised = Some(43)
    /\ base0 = 40
    /\ lpc = "sleep"
    /\ outcome = "notified"
    /\ llog = Round(43)
    /\ temp_base = 43

\* C19: the first iteration after a start that reads a temperature compares
\* it with 0: it invokes the subscribers if the reading is at least the
\* threshold away from 0, and nobody otherwise.
C19_FirstSampleAgainstZero ==
    (fresh /\ Sampled)
        => /\ base0 = 0
           /\ IF Abs(cur_temp[1]) >= thermal_threshold_deg
                THEN llog = Round(cur_temp[1]) /\ temp_base = cur_temp[1]
                ELSE llog = << >> /\ temp_base = 0

\* a first reading of -2, after an iteration that the firmware gate ended
C19_Witness ==
    /\ fresh
    /\ Sampled
    /\ cur_temp = Some(-2)
    /\ llog = Round(-2)
    /\ temp_base = -2
    /\ tl_value = 0

\* C20: a stop() call and the destructor invoke no subscriber, and the
\* destructor leaves the loop stopped; only update(false) invokes a
\* subscriber from a controlling thread, with 0.
C20_StopIsSilent ==
    \A t \in Ctl :
        /\ (op[t] \in {"stop", "destroy"} /\ cpc[t] \in {"idle", "dead"})
              => clog[t] = << >>
        /\ cpc[t] = "dead" => ~is_active
        /\ clog[t] # << >> => op[t] = "update_off"
        /\ cpc[t] = "notify" => op[t] = "update_off"

\* the destructor has stopped a loop that was in a notification round
C20_Witness ==
    /\ cpc["c1"] = "dead"
    /\ pre_active["c1"]
    /\ cancel_at = "notify"
    /\ clog["c1"] = << >>
    /\ lpc = "idle"

====
